---- MODULE Spec2Model ----
(***************************************************************************)
(* Model of the calendar synchronisation code of convo-app:                *)
(*   - updateEvents / parseEvents  (server/utils/google/updateEvents)      *)
(*   - sendInviteHandler           (pages/api/actions/google/sendInvite)   *)
(* Both live in src/src/pages/api/actions/google/sendInvite.ts.            *)
(***************************************************************************)
EXTENDS Integers, Sequences, FiniteSets, TLC

VARIABLES
    \* ---- updateEvents ----
    store,          \* the Event table: id -> FullEvent (the objects the caller passes)
    updated,        \* events.updated, as references (ids) into store
    deleted,        \* events.deleted, as references (ids) into store
    reqHost,        \* reqHost argument
    pc,             \* position of the updateEvents call
    allEvents,      \* const allEvents
    parsedEvents,   \* const parsedEvents
    i,              \* loop index of the attendee prefill loop
    eventsToUpdate, \* const eventsToUpdate
    origin,         \* for every entry of eventsToUpdate, the index of allEvents it was pushed from
    adapterCalls,   \* log of Calendar Adapter calls, in the order they are made
    promises,       \* updateGcalPromises: state of every update call, the id it answered
                    \* and the attendees field the provider replaced when applying it
    result,         \* outcome of the updateEvents promise
    remote,         \* provider side: attendee list of every remote event
    \* ---- sendInviteHandler ----
    body,           \* req.body
    prodHost,       \* process.env.PROD_HOST
    users,          \* the User table: id -> email (NULL when the row is gone)
    rsvps,          \* the Rsvp table: <<eventId, attendeeId>> -> flag or NoRow
    hpc,            \* position of the handler
    hi,             \* loop index of the marking loop
    userId,         \* const userId of the current iteration
    lookups,        \* user.findUnique calls made: [index, email, found]
    inviteCalls,    \* sendInvite calls made, with their arguments
    rsvpAttempts,   \* rsvp.update calls attempted: [index, eventId, attendeeId, outcome]
    response        \* what the handler produced

syncVars == <<store, updated, deleted, reqHost, pc, allEvents, parsedEvents, i,
              eventsToUpdate, origin, adapterCalls, promises, result, remote>>
handlerVars == <<body, prodHost, users, rsvps, hpc, hi, userId, lookups, inviteCalls,
                 rsvpAttempts, response>>
vars == <<syncVars, handlerVars>>

\* ---------------------------------------------------------------- bounds
MaxBatch == 2       \* longest working set (updated followed by deleted)
MaxEvents == 2      \* longest events list of a request body

\* ------------------------------------------------------------ value sets
NULL == "null"                  \* null / undefined
EventIds == {"e1", "e2"}

\* JavaScript truthiness of a nullable string: null, undefined and "" are falsy
Falsy(v) == v = NULL \/ v = ""

\* fixed columns of the stored events
TitleOf(id) == IF id = "e1" THEN "Standup" ELSE "Retro"
GCalEventIdOf(id) == IF id = "e1" THEN "g1" ELSE "g2"
HashOf(id) == IF id = "e1" THEN "h1" ELSE "h2"
NicknameOf(id) == IF id = "e1" THEN "ada" ELSE ""
RemoteIds == {GCalEventIdOf(id) : id \in EventIds}
CalendarId == "cal"

\* the attendees field of a remote event or of a payload: a list, or no field at all
NoAttendees == [has |-> FALSE, list |-> <<>>]
Attendees(list) == [has |-> TRUE, list |-> list]
AttendeeLists == {<<"a@x">>}
RemoteAttendees == {Attendees(l) : l \in AttendeeLists} \cup {NoAttendees}

Hosts == {<<"localhost", ":3000">>, <<"example", ".com">>}

\* rows of the Event table (FullEvent = Event & { proposer })
FullEvent(id, isDel, gEv, gCal) ==
    [id |-> id, title |-> TitleOf(id), isDeleted |-> isDel,
     gCalEventId |-> gEv, gCalId |-> gCal,
     descriptionHtml |-> "desc", hash |-> HashOf(id),
     location |-> "loc", startDateTime |-> "start", endDateTime |-> "end",
     proposer |-> [nickname |-> NicknameOf(id)]]

StoredEvents(id) ==
    {FullEvent(id, d, g, c) : d \in BOOLEAN, g \in {NULL, GCalEventIdOf(id)},
                              c \in {NULL, CalendarId}}

\* the User table: the users and the e-mail addresses they can have
UserIds == {"u1", "u2"}
EmailOf(u) == IF u = "u1" THEN "ada@x" ELSE "bob@x"
\* e-mail values of a request body: none, empty, a user's, nobody's
BodyEmails == {NULL, "", "ada@x", "eve@x"}
\* an Rsvp row: missing, or present with isAddedToGoogleCalendar false / true
RowStates == {"norow", "unmarked", "added"}

SeqsUpTo(S, n) == UNION {[1..k -> S] : k \in 0..n}
\* ================================================================ parseEvents
\* the host compared with "localhost" in place of searched for it
ProtocolExact(host) == IF host = <<"localhost">> THEN "http" ELSE "https"

\* line 81: reqHost.includes("localhost") ? "http" : "https"
Protocol(host) ==
    IF \E k \in DOMAIN host : host[k] = "localhost" THEN "http" ELSE "https"

\* the check made for the events that are not deleted only
ParseThrowsLiveOnly(events) ==
    \E k \in DOMAIN events : ~events[k].isDeleted /\ Falsy(events[k].gCalEventId)

\* lines 83-85: the map callback throws on the first event without a gCalEventId
ParseThrows(events) == \E k \in DOMAIN events : Falsy(events[k].gCalEventId)

\* line 86
Summary(event) ==
    IF event.isDeleted THEN "CANCELLED: " \o event.title ELSE event.title

\* lines 102-107: the description, as the sequence of the pieces concatenated
Description(event, host) ==
    <<event.descriptionHtml>>
    \o (IF ~Falsy(event.proposer.nickname)
        THEN <<"\n\nProposer: ", event.proposer.nickname>> ELSE <<>>)
    \o <<"\nRSVP here: ", Protocol(host), "://">> \o host \o <<"/rsvp/", event.hash>>

\* lines 87-108: the payload built for one event (it carries no attendees field)
ParseEvent(event, host) ==
    [databaseId |-> event.id,
     isDeleted |-> event.isDeleted,
     gCalId |-> event.gCalId,
     gCalEventId |-> event.gCalEventId,
     summary |-> Summary(event),
     start |-> [dateTime |-> event.startDateTime],
     end |-> [dateTime |-> event.endDateTime],
     guestsCanSeeOtherGuests |-> FALSE,
     guestsCanInviteOthers |-> FALSE,
     location |-> event.location,
     description |-> Description(event, host),
     attendees |-> NoAttendees]

parseEvents(events, host) == [k \in DOMAIN events |-> ParseEvent(events[k], host)]

\* ================================================================ updateEvents
Pending == [status |-> "pending", ids |-> <<>>]
Rejected == [status |-> "rejected", ids |-> <<>>]
Resolved(ids) == [status |-> "resolved", ids |-> ids]

\* one Calendar Adapter call: its arguments, the index of allEvents it was made for,
\* and for the awaited calls (getCalendar, getEvent) how it ended and, for getEvent,
\* the attendees field of the event it returned
NoBody == [databaseId |-> NULL]
Call(op, calendarId, eventId, requestBody, index, outcome, returned) ==
    [op |-> op, calendarId |-> calendarId, eventId |-> eventId,
     requestBody |-> requestBody, index |-> index,
     outcome |-> outcome, returned |-> returned]

\* the copy made without setting the flag
MarkDeletedForgotten(e) == e

\* lines 128-133: { ...e, isDeleted: true } builds a copy of e
MarkDeleted(e) == [e EXCEPT !.isDeleted = TRUE]

\* lines 128-133: the spread copies, so the caller's objects stay as they were
StoreAfterMarking(s, del) == s

\* line 135
AllEvents(s, upd, del) ==
    [k \in DOMAIN upd |-> s[upd[k]]] \o [k \in DOMAIN del |-> MarkDeleted(s[del[k]])]

\* lines 128-136: everything before the first await
Begin ==
    /\ pc = "start"
    /\ allEvents' = AllEvents(store, updated, deleted)
    /\ store' = StoreAfterMarking(store, deleted)
    /\ IF ParseThrows(allEvents')
       THEN /\ result' = Rejected
            /\ pc' = "done"
            /\ UNCHANGED parsedEvents
       ELSE /\ parsedEvents' = parseEvents(allEvents', reqHost)
            /\ pc' = "getCalendar"
            /\ UNCHANGED result
    /\ UNCHANGED <<handlerVars, updated, deleted, reqHost, i, eventsToUpdate, origin,
                   adapterCalls, promises, remote>>

\* line 138: await getCalendar() resolves; line 140
GetCalendar ==
    /\ pc = "getCalendar"
    /\ adapterCalls' = Append(adapterCalls,
           Call("getCalendar", NULL, NULL, NoBody, 0, "ok", NoAttendees))
    /\ pc' = "loop"
    /\ i' = 1
    /\ UNCHANGED <<handlerVars, store, updated, deleted, reqHost, allEvents, parsedEvents,
                   eventsToUpdate, origin, promises, result, remote>>

\* line 138: await getCalendar() rejects, and so does updateEvents
GetCalendarRejects ==
    /\ pc = "getCalendar"
    /\ adapterCalls' = Append(adapterCalls,
           Call("getCalendar", NULL, NULL, NoBody, 0, "rejected", NoAttendees))
    /\ pc' = "done"
    /\ result' = Rejected
    /\ UNCHANGED <<handlerVars, store, updated, deleted, reqHost, allEvents, parsedEvents, i,
                   eventsToUpdate, origin, promises, remote>>

\* the calendar id check left out
SkippedEventIdOnly(p) == Falsy(p.gCalEventId)

\* lines 153-162: a non-deleted payload without remote event id or calendar id
Skipped(p) == Falsy(p.gCalEventId) \/ Falsy(p.gCalId)

\* the fetched attendees dropped
PrefillAttendeesEmpty(fetched) == <<>>

\* line 164: event.attendees || []
PrefillAttendees(fetched) == IF fetched.has THEN fetched.list ELSE <<>>

\* the payload pushed without the attendees
WithAttendeesDropped(p, attendees) == p

\* lines 165-168: { ...parsedEvent, attendees }
WithAttendees(p, attendees) == [p EXCEPT !.attendees = Attendees(attendees)]

InLoop == pc = "loop" /\ i <= Len(parsedEvents)

\* lines 149-162: what one iteration does with a payload
Branch(p) ==
    IF p.isDeleted THEN "push"
    ELSE IF Skipped(p) THEN "skip"
    ELSE "fetch"

\* lines 149-152: a deleted event is pushed as it is
LoopDeleted ==
    /\ InLoop
    /\ Branch(parsedEvents[i]) = "push"
    /\ eventsToUpdate' = Append(eventsToUpdate, parsedEvents[i])
    /\ origin' = Append(origin, i)
    /\ i' = i + 1
    /\ UNCHANGED <<handlerVars, store, updated, deleted, reqHost, pc, allEvents, parsedEvents,
                   adapterCalls, promises, result, remote>>

\* lines 153-162: console.error and continue
LoopSkip ==
    /\ InLoop
    /\ Branch(parsedEvents[i]) = "skip"
    /\ i' = i + 1
    /\ UNCHANGED <<handlerVars, store, updated, deleted, reqHost, pc, allEvents, parsedEvents,
                   eventsToUpdate, origin, adapterCalls, promises, result, remote>>

\* lines 163-168: await getEvent(...) resolves with the remote event as it is now
LoopFetch ==
    /\ InLoop
    /\ Branch(parsedEvents[i]) = "fetch"
    /\ LET p == parsedEvents[i] IN
        /\ adapterCalls' = Append(adapterCalls,
               Call("getEvent", p.gCalId, p.gCalEventId, NoBody, i, "ok",
                    remote[p.gCalEventId]))
        /\ eventsToUpdate' = Append(eventsToUpdate,
               WithAttendees(p, PrefillAttendees(remote[p.gCalEventId])))
    /\ origin' = Append(origin, i)
    /\ i' = i + 1
    /\ UNCHANGED <<handlerVars, store, updated, deleted, reqHost, pc, allEvents, parsedEvents,
                   promises, result, remote>>

\* line 163: await getEvent(...) rejects, and so does updateEvents
LoopFetchRejects ==
    /\ InLoop
    /\ Branch(parsedEvents[i]) = "fetch"
    /\ LET p == parsedEvents[i] IN
        adapterCalls' = Append(adapterCalls,
            Call("getEvent", p.gCalId, p.gCalEventId, NoBody, i, "rejected", NoAttendees))
    /\ pc' = "done"
    /\ result' = Rejected
    /\ UNCHANGED <<handlerVars, store, updated, deleted, reqHost, allEvents, parsedEvents, i,
                   eventsToUpdate, origin, promises, remote>>

\* the update call addressed by the local id
UpdateCallByDatabaseId(e, index) ==
    Call("update", NULL, e.databaseId, e, index, "pending", NoAttendees)

\* lines 173-176: the update call made for one entry of eventsToUpdate
UpdateCall(e, index) ==
    Call("update", NULL, e.gCalEventId, e, index, "pending", NoAttendees)

\* lines 172-177: the map issues every update call before anything is awaited
IssueUpdates ==
    /\ pc = "loop"
    /\ i > Len(parsedEvents)
    /\ adapterCalls' = adapterCalls \o
           [k \in DOMAIN eventsToUpdate |-> UpdateCall(eventsToUpdate[k], origin[k])]
    /\ promises' = [k \in DOMAIN eventsToUpdate |->
                        [state |-> "pending", id |-> NULL, replaced |-> NoAttendees]]
    /\ pc' = "await"
    /\ UNCHANGED <<handlerVars, store, updated, deleted, reqHost, allEvents, parsedEvents, i,
                   eventsToUpdate, origin, result, remote>>
\* the provider applies an update: the event's attendee list becomes the payload's
RemoteAfterUpdate(r, call) ==
    [r EXCEPT ![call.eventId] = call.requestBody.attendees]

UpdateCalls == SelectSeq(adapterCalls, LAMBDA c : c.op = "update")

\* lines 173-176: the provider performs update call k and answers with the event
UpdateFulfils(k) ==
    /\ pc \in {"await", "done"}
    /\ k \in DOMAIN promises
    /\ promises[k].state = "pending"
    /\ promises' = [promises EXCEPT ![k] =
                        [state |-> "fulfilled", id |-> UpdateCalls[k].eventId,
                         replaced |-> remote[UpdateCalls[k].eventId]]]
    /\ remote' = RemoteAfterUpdate(remote, UpdateCalls[k])
    /\ UNCHANGED <<handlerVars, store, updated, deleted, reqHost, pc, allEvents, parsedEvents, i,
                   eventsToUpdate, origin, adapterCalls, result>>

\* lines 173-176: update call k fails
UpdateRejects(k) ==
    /\ pc \in {"await", "done"}
    /\ k \in DOMAIN promises
    /\ promises[k].state = "pending"
    /\ promises' = [promises EXCEPT ![k] =
                        [state |-> "rejected", id |-> NULL, replaced |-> NoAttendees]]
    /\ UNCHANGED <<handlerVars, store, updated, deleted, reqHost, pc, allEvents, parsedEvents, i,
                   eventsToUpdate, origin, adapterCalls, result, remote>>

\* line 178: Promise.all settles when one promise rejects or all are fulfilled
AllSettles(ps) ==
    \/ \E k \in DOMAIN ps : ps[k].state = "rejected"
    \/ \A k \in DOMAIN ps : ps[k].state = "fulfilled"

\* lines 180-185: updated.map((i, key) => ...)
Ids(upd, all) ==
    [key \in DOMAIN upd |->
        [calendarEventId |-> upd[key].id,
         databaseEventId |-> IF key \in DOMAIN all THEN all[key].id ELSE NULL]]

\* the join done as Promise.allSettled: the fulfilled calls' pairs are returned
JoinOutcomeSettled(ps, all) ==
    Resolved(SelectSeq(Ids(ps, all), LAMBDA x : ~Falsy(x.calendarEventId)))

\* lines 178-187: the outcome of updateEvents once Promise.all has settled
JoinOutcome(ps, all) ==
    IF \E k \in DOMAIN ps : ps[k].state = "rejected"
    THEN Rejected
    ELSE Resolved(Ids(ps, all))

\* lines 178-187
Join ==
    /\ pc = "await"
    /\ AllSettles(promises)
    /\ result' = JoinOutcome(promises, allEvents)
    /\ pc' = "done"
    /\ UNCHANGED <<handlerVars, store, updated, deleted, reqHost, allEvents, parsedEvents, i,
                   eventsToUpdate, origin, adapterCalls, promises, remote>>

\* another calendar user adds or removes attendees of a remote event
RemoteChange(g, a) ==
    /\ pc \in {"loop", "await"}
    /\ a # remote[g]
    /\ remote' = [remote EXCEPT ![g] = a]
    /\ UNCHANGED <<handlerVars, store, updated, deleted, reqHost, pc, allEvents, parsedEvents, i,
                   eventsToUpdate, origin, adapterCalls, promises, result>>

\* ================================================================ handler state at rest
HandlerIdle ==
    /\ body = [hasEvents |-> FALSE, events |-> <<>>, email |-> NULL]
    /\ prodHost = NULL
    /\ users = [u \in UserIds |-> NULL]
    /\ rsvps = [r \in EventIds \X UserIds |-> "norow"]
    /\ hpc = "idle"
    /\ hi = 0
    /\ userId = NULL
    /\ lookups = <<>>
    /\ inviteCalls = <<>>
    /\ rsvpAttempts = <<>>
    /\ response = "none"

\* ================================================================ specification of updateEvents
Batches ==
    {b \in SeqsUpTo(EventIds, MaxBatch) \X SeqsUpTo(EventIds, MaxBatch) :
        Len(b[1]) + Len(b[2]) <= MaxBatch}

SyncInit ==
    /\ store \in {s \in [EventIds -> UNION {StoredEvents(id) : id \in EventIds}] :
                     \A id \in EventIds : s[id].id = id}
    /\ \E b \in Batches : updated = b[1] /\ deleted = b[2]
    /\ reqHost \in Hosts
    /\ pc = "start"
    /\ allEvents = <<>>
    /\ parsedEvents = <<>>
    /\ i = 0
    /\ eventsToUpdate = <<>>
    /\ origin = <<>>
    /\ adapterCalls = <<>>
    /\ promises = <<>>
    /\ result = Pending
    /\ remote \in [RemoteIds -> RemoteAttendees]

Init == SyncInit /\ HandlerIdle

Next ==
    \/ Begin
    \/ GetCalendar
    \/ GetCalendarRejects
    \/ LoopDeleted
    \/ LoopSkip
    \/ LoopFetch
    \/ LoopFetchRejects
    \/ IssueUpdates
    \/ \E k \in 1..MaxBatch + 1 : UpdateFulfils(k)
    \/ \E k \in 1..MaxBatch + 1 : UpdateRejects(k)
    \/ Join
    \/ \E g \in RemoteIds, a \in RemoteAttendees : RemoteChange(g, a)

Spec == Init /\ [][Next]_vars
\* ================================================================ sendInviteHandler
\* the check written with && in place of ||
InvalidBodyBoth(b) == ~b.hasEvents /\ Falsy(b.email)

\* line 20: !events || !email
InvalidBody(b) == ~b.hasEvents \/ Falsy(b.email)

\* line 25: !prodHost
InvalidConfig(h) == Falsy(h)

\* lines 10-27: the checks before the first await
Validate ==
    /\ hpc = "start"
    /\ IF InvalidBody(body) \/ InvalidConfig(prodHost)
       THEN hpc' = "failed" /\ response' = "error"
       ELSE hpc' = "sendInvite" /\ UNCHANGED response
    /\ UNCHANGED <<syncVars, body, prodHost, users, rsvps, hi, userId, lookups,
                   inviteCalls, rsvpAttempts>>

InviteCall == [events |-> body.events, attendeeEmail |-> body.email]

\* lines 29-34: await sendInvite(...) resolves; let i = 0
SendInvite ==
    /\ hpc = "sendInvite"
    /\ inviteCalls' = Append(inviteCalls, InviteCall)
    /\ hpc' = "loop"
    /\ hi' = 1
    /\ UNCHANGED <<syncVars, body, prodHost, users, rsvps, userId, lookups,
                   rsvpAttempts, response>>

\* lines 29-32: await sendInvite(...) rejects, and the handler throws
SendInviteRejects ==
    /\ hpc = "sendInvite"
    /\ inviteCalls' = Append(inviteCalls, InviteCall)
    /\ hpc' = "failed"
    /\ response' = "error"
    /\ UNCHANGED <<syncVars, body, prodHost, users, rsvps, hi, userId, lookups,
                   rsvpAttempts>>

\* the lookup made without its where clause: the first user of the table
FindUserFirst(table, email) ==
    IF \E u \in UserIds : table[u] # NULL
    THEN CHOOSE u \in UserIds : table[u] # NULL
    ELSE NULL

\* line 35: prisma.user.findUnique({ where: { email } })
FindUser(table, email) ==
    IF \E u \in UserIds : table[u] = email
    THEN CHOOSE u \in UserIds : table[u] = email
    ELSE NULL

\* the miss skipping the event in place of leaving the loop
AfterLookupContinue(user) == IF user = NULL THEN "continue" ELSE "update"

\* lines 36-38: what follows the lookup
AfterLookup(user) == IF user = NULL THEN "break" ELSE "update"

\* lines 34-38 and 56-58: one lookup; a miss leaves the loop and the handler responds
LookupUser ==
    /\ hpc = "loop"
    /\ hi <= Len(body.events)
    /\ LET user == FindUser(users, body.email) IN
        /\ userId' = user
        /\ lookups' = Append(lookups, [index |-> hi, email |-> body.email, found |-> user])
        /\ CASE AfterLookup(user) = "update" ->
                    hpc' = "update" /\ UNCHANGED <<hi, response>>
             [] AfterLookup(user) = "break" ->
                    hpc' = "done" /\ response' = "success" /\ UNCHANGED hi
             [] OTHER ->
                    hpc' = "loop" /\ hi' = hi + 1 /\ UNCHANGED response
    /\ UNCHANGED <<syncVars, body, prodHost, users, rsvps, inviteCalls, rsvpAttempts>>

\* lines 40-50: prisma.rsvp.update throws when the row does not exist
UpdateThrows(table, eventId, attendeeId) == table[<<eventId, attendeeId>>] = "norow"

\* the update made outside try / catch
AfterUpdatePropagates(outcome) == IF outcome = "threw" THEN "throw" ELSE "loop"

\* lines 51-53: what follows the update
AfterUpdate(outcome) == "loop"

\* lines 39-54: one rsvp.update under try / catch, then i++
RsvpUpdate ==
    /\ hpc = "update"
    /\ LET eventId == body.events[hi]
           outcome == IF UpdateThrows(rsvps, eventId, userId) THEN "threw" ELSE "ok"
       IN
        /\ rsvpAttempts' = Append(rsvpAttempts,
               [index |-> hi, eventId |-> eventId, attendeeId |-> userId,
                outcome |-> outcome])
        /\ rsvps' = IF outcome = "ok"
                    THEN [rsvps EXCEPT ![<<eventId, userId>>] = "added"]
                    ELSE rsvps
        /\ IF AfterUpdate(outcome) = "loop"
           THEN hpc' = "loop" /\ hi' = hi + 1 /\ UNCHANGED response
           ELSE hpc' = "failed" /\ response' = "error" /\ UNCHANGED hi
    /\ UNCHANGED <<syncVars, body, prodHost, users, userId, lookups, inviteCalls>>

\* lines 34 and 56-58: the loop condition fails and the handler responds
Respond ==
    /\ hpc = "loop"
    /\ hi > Len(body.events)
    /\ hpc' = "done"
    /\ response' = "success"
    /\ UNCHANGED <<syncVars, body, prodHost, users, rsvps, hi, userId, lookups,
                   inviteCalls, rsvpAttempts>>

\* another request changes a user's e-mail while the handler is suspended
UserEmailChanged(u) ==
    /\ hpc \in {"loop", "update"}
    /\ users[u] # NULL
    /\ users' = [users EXCEPT ![u] = NULL]
    /\ UNCHANGED <<syncVars, body, prodHost, rsvps, hpc, hi, userId, lookups,
                   inviteCalls, rsvpAttempts, response>>

\* ================================================================ updateEvents state at rest
SyncIdle ==
    /\ store = [id \in EventIds |-> FullEvent(id, FALSE, NULL, NULL)]
    /\ updated = <<>>
    /\ deleted = <<>>
    /\ reqHost = <<>>
    /\ pc = "idle"
    /\ allEvents = <<>>
    /\ parsedEvents = <<>>
    /\ i = 0
    /\ eventsToUpdate = <<>>
    /\ origin = <<>>
    /\ adapterCalls = <<>>
    /\ promises = <<>>
    /\ result = Pending
    /\ remote = [g \in RemoteIds |-> NoAttendees]

\* ================================================================ specification of sendInviteHandler
Bodies ==
    {[hasEvents |-> FALSE, events |-> <<>>, email |-> e] : e \in BodyEmails}
    \cup {[hasEvents |-> TRUE, events |-> ev, email |-> e] :
            ev \in SeqsUpTo(EventIds, MaxEvents), e \in BodyEmails}

HandlerInit ==
    /\ body \in Bodies
    /\ prodHost \in {NULL, "convo.app"}
    /\ users \in {[u \in UserIds |-> EmailOf(u)],
                  [u \in UserIds |-> IF u = "u1" THEN NULL ELSE EmailOf(u)]}
    /\ rsvps \in [EventIds \X UserIds -> RowStates]
    /\ hpc = "start"
    /\ hi = 0
    /\ userId = NULL
    /\ lookups = <<>>
    /\ inviteCalls = <<>>
    /\ rsvpAttempts = <<>>
    /\ response = "none"

InitHandler == HandlerInit /\ SyncIdle

NextHandler ==
    \/ Validate
    \/ SendInvite
    \/ SendInviteRejects
    \/ LookupUser
    \/ RsvpUpdate
    \/ Respond
    \/ \E u \in UserIds : UserEmailChanged(u)

SpecHandler == InitHandler /\ [][NextHandler]_vars

\* ================================================================ specification of parseEvents
\* request hosts, cut into pieces so that every "localhost" in a host is one piece
ParseHosts ==
    Hosts \cup {<<"localhost">>, <<"my.", "localhost", ".dev">>, <<"LOCALHOST", ":3000">>}

\* the events and the host are drawn here; Begin applies parseEvents to them
ParseInit ==
    /\ store \in {s \in [EventIds -> UNION {StoredEvents(id) : id \in EventIds}] :
                     \A id \in EventIds : s[id].id = id}
    /\ \E b \in Batches : updated = b[1] /\ deleted = b[2]
    /\ reqHost \in ParseHosts
    /\ pc = "start"
    /\ allEvents = <<>>
    /\ parsedEvents = <<>>
    /\ i = 0
    /\ eventsToUpdate = <<>>
    /\ origin = <<>>
    /\ adapterCalls = <<>>
    /\ promises = <<>>
    /\ result = Pending
    /\ remote = [g \in RemoteIds |-> NoAttendees]

InitParse == ParseInit /\ HandlerIdle

NextParse == Begin

SpecParse == InitParse /\ [][NextParse]_vars

\* ================================================================ claims about updateEvents
\* the event of the store that entry k of the working set was taken from
WorkingRef(k) == IF k <= Len(updated) THEN updated[k] ELSE deleted[k - Len(updated)]
WorkingIndices == 1..(Len(updated) + Len(deleted))
InDeletedSet(k) == k \in WorkingIndices /\ k > Len(updated)
\* every call of the batch has been made
Issued == pc = "await" \/ UpdateCalls # <<>> \/ result.status = "resolved"
CallsFor(op, k) == {n \in DOMAIN adapterCalls :
                        adapterCalls[n].op = op /\ adapterCalls[n].index = k}

AnyMissingEventId ==
    \E k \in WorkingIndices : Falsy(store[WorkingRef(k)].gCalEventId)

\* C1: if any event of the working set has no gCalEventId, updateEvents rejects and
\* no Calendar Adapter operation is invoked for any event of the batch.
C1_FailFast ==
    AnyMissingEventId =>
        /\ adapterCalls = <<>>
        /\ promises = <<>>
        /\ pc \in {"start", "done"}
        /\ pc = "done" => result = Rejected

C1_Witness ==
    /\ pc = "done"
    /\ result = Rejected
    /\ \E k \in WorkingIndices : Falsy(store[WorkingRef(k)].gCalEventId)
    /\ \E k \in WorkingIndices : ~Falsy(store[WorkingRef(k)].gCalEventId)

\* C2: each returned pair holds the remote id the provider returned for an update
\* call and the local id of the event that update call was built from.
C2_PairedWithOrigin ==
    result.status = "resolved" =>
        /\ Len(result.ids) = Len(UpdateCalls)
        /\ \A k \in DOMAIN result.ids :
            /\ result.ids[k].calendarEventId = promises[k].id
            /\ result.ids[k].databaseEventId = UpdateCalls[k].requestBody.databaseId

\* C3: every update call is issued before any is awaited, and one rejected update
\* call makes updateEvents reject without any id-pairing list.
C3_AllOrNothing ==
    /\ (pc = "await" \/ promises # <<>>) =>
            /\ Len(UpdateCalls) = Len(eventsToUpdate)
            /\ Len(promises) = Len(eventsToUpdate)
    /\ (pc = "done" /\ \E k \in DOMAIN promises : promises[k].state = "rejected") =>
            /\ result.status = "rejected"
            /\ result.ids = <<>>

C3_Witness ==
    /\ pc = "done"
    /\ \E k \in DOMAIN promises : promises[k].state = "rejected"
    /\ \E k \in DOMAIN promises : promises[k].state = "fulfilled"
    /\ result = Rejected

\* C4: the payload of every non-deleted event submitted carries the attendee list the
\* getEvent fetch for the same (gCalId, gCalEventId) returned, and the empty list
\* when the fetched event has none.
C4_AttendeesPreserved ==
    \A n \in DOMAIN adapterCalls :
        LET c == adapterCalls[n] IN
        (c.op = "update" /\ ~c.requestBody.isDeleted) =>
            \E m \in 1..(n - 1) :
                LET f == adapterCalls[m] IN
                /\ f.op = "getEvent"
                /\ f.outcome = "ok"
                /\ f.index = c.index
                /\ f.calendarId = c.requestBody.gCalId
                /\ f.eventId = c.requestBody.gCalEventId
                /\ c.requestBody.attendees.has
                /\ c.requestBody.attendees.list =
                       (IF f.returned.has THEN f.returned.list ELSE <<>>)

C4_Witness ==
    /\ \E n \in DOMAIN adapterCalls :
         /\ adapterCalls[n].op = "update"
         /\ ~adapterCalls[n].requestBody.isDeleted
         /\ adapterCalls[n].requestBody.attendees.list # <<>>
    /\ \E n \in DOMAIN adapterCalls :
         /\ adapterCalls[n].op = "update"
         /\ ~adapterCalls[n].requestBody.isDeleted
         /\ adapterCalls[n].requestBody.attendees.list = <<>>

\* C5: every event of the deleted set is submitted with the title "CANCELLED: "
\* followed by its title, whatever its stored flag, and is never fetched; an event of
\* the updated set whose isDeleted is false keeps its title.
C5_DeletedCancelled ==
    /\ \A n \in DOMAIN adapterCalls :
        LET c == adapterCalls[n] IN
        /\ (c.op = "update" /\ InDeletedSet(c.index)) =>
               c.requestBody.summary = "CANCELLED: " \o store[WorkingRef(c.index)].title
        /\ c.op = "getEvent" => ~InDeletedSet(c.index)
        /\ (c.op = "update" /\ c.index \in 1..Len(updated)
              /\ ~store[WorkingRef(c.index)].isDeleted) =>
               c.requestBody.summary = store[WorkingRef(c.index)].title
    /\ Issued => \A k \in WorkingIndices :
                    InDeletedSet(k) => Cardinality(CallsFor("update", k)) = 1

C5_Witness ==
    /\ pc = "done"
    /\ \E n \in DOMAIN adapterCalls :
         /\ adapterCalls[n].op = "update"
         /\ InDeletedSet(adapterCalls[n].index)
         /\ ~store[WorkingRef(adapterCalls[n].index)].isDeleted
    /\ \E n \in DOMAIN adapterCalls :
         /\ adapterCalls[n].op = "update"
         /\ ~InDeletedSet(adapterCalls[n].index)
\* entry k of the working set is not deleted: it is of the updated set, flag unset
Live(k) == k \in 1..Len(updated) /\ ~store[WorkingRef(k)].isDeleted
MissingCalendarId(k) == Falsy(store[WorkingRef(k)].gCalId)
AdapterRejected ==
    \/ \E n \in DOMAIN adapterCalls : adapterCalls[n].outcome = "rejected"
    \/ \E k \in DOMAIN promises : promises[k].state = "rejected"

\* C9 as stated: any event of the working set whose gCalId is missing gets no attendee
\* fetch and no update call.
C9_AnyEventSkipped ==
    \A k \in WorkingIndices :
        MissingCalendarId(k) =>
            CallsFor("getEvent", k) = {} /\ CallsFor("update", k) = {}

\* C9, amended: a non-deleted event of the working set whose gCalId is missing gets
\* no attendee fetch and no update call; every other event of the batch is still
\* updated, and fetched when it is not deleted; updateEvents rejects only when an
\* event lacks its gCalEventId or a Calendar Adapter call rejects.
C9_LiveEventSkipped ==
    /\ \A k \in WorkingIndices :
        (Live(k) /\ MissingCalendarId(k)) =>
            CallsFor("getEvent", k) = {} /\ CallsFor("update", k) = {}
    /\ Issued =>
        \A k \in WorkingIndices :
            ~(Live(k) /\ MissingCalendarId(k)) =>
                /\ Cardinality(CallsFor("update", k)) = 1
                /\ Live(k) => Cardinality(CallsFor("getEvent", k)) = 1
    /\ result.status = "rejected" => AnyMissingEventId \/ AdapterRejected

C9_Witness ==
    /\ result.status = "resolved"
    /\ \E k \in WorkingIndices :
        /\ Live(k) /\ MissingCalendarId(k)
        /\ \E j \in WorkingIndices :
            /\ j > k /\ Live(j)
            /\ CallsFor("getEvent", j) # {} /\ CallsFor("update", j) # {}

\* C10: every update call targets the gCalEventId of the event it was built from,
\* no event of the batch gets two update calls, and updateEvents leaves the
\* gCalEventId and the isDeleted flag of every stored event as they were.
C10_RemoteIdStable ==
    /\ [](\A n \in DOMAIN adapterCalls :
            adapterCalls[n].op = "update" =>
                /\ adapterCalls[n].index \in WorkingIndices
                /\ adapterCalls[n].eventId =
                       store[WorkingRef(adapterCalls[n].index)].gCalEventId
                /\ Cardinality(CallsFor("update", adapterCalls[n].index)) = 1)
    /\ [][\A id \in EventIds :
            /\ store'[id].gCalEventId = store[id].gCalEventId
            /\ store'[id].isDeleted = store[id].isDeleted]_vars

C10_Witness ==
    /\ pc = "done"
    /\ \E n \in DOMAIN adapterCalls :
         adapterCalls[n].op = "update" /\ InDeletedSet(adapterCalls[n].index)
    /\ \E n \in DOMAIN adapterCalls :
         adapterCalls[n].op = "update" /\ Live(adapterCalls[n].index)
\* ================================================================ claims about sendInviteHandler
Misses == {n \in DOMAIN lookups : lookups[n].found = NULL}
Attempts == DOMAIN rsvpAttempts

\* C6: when the user lookup finds no user at iteration i, the loop stops there: no
\* rsvp.update is attempted for event i or a later one, and the handler completes.
C6_MissStopsLoop ==
    \A n \in Misses :
        /\ n = Len(lookups)
        /\ \A a \in Attempts : rsvpAttempts[a].index < lookups[n].index
        /\ hpc = "done"
        /\ response = "success"

C6_Witness ==
    /\ hpc = "done"
    /\ \E n \in Misses : lookups[n].index < Len(body.events)

\* C7: an rsvp.update that throws is swallowed: the rsvp.update of every later event
\* is still attempted while the user is found, and the handler responds with success.
C7_ThrowSwallowed ==
    \A a \in Attempts :
        rsvpAttempts[a].outcome = "threw" =>
            /\ hpc \in {"loop", "update", "done"}
            /\ response # "error"
            /\ hpc # "done" => hi > rsvpAttempts[a].index
            /\ hpc = "done" =>
                /\ response = "success"
                /\ \A j \in (rsvpAttempts[a].index + 1)..Len(body.events) :
                    \/ \E b \in Attempts : rsvpAttempts[b].index = j
                    \/ \E n \in Misses : lookups[n].index <= j

C7_Witness ==
    /\ hpc = "done"
    /\ response = "success"
    /\ \E a, b \in Attempts :
        /\ rsvpAttempts[a].outcome = "threw"
        /\ rsvpAttempts[b].index > rsvpAttempts[a].index
        /\ rsvpAttempts[b].outcome = "ok"

InvalidInput ==
    \/ ~body.hasEvents
    \/ body.email \in {NULL, ""}
    \/ prodHost \in {NULL, ""}

\* C8: without an events list, without an email or without PROD_HOST the handler
\* fails before sendInvite is called: no invite is sent, no Rsvp row is changed and
\* no success response is produced.
C8_InvalidInputFails ==
    /\ [](InvalidInput =>
            /\ hpc \in {"start", "failed"}
            /\ hpc = "failed" => response = "error"
            /\ response # "success"
            /\ inviteCalls = <<>>
            /\ rsvpAttempts = <<>>)
    /\ [][InvalidInput => rsvps' = rsvps]_vars

C8_Witness ==
    /\ hpc = "failed"
    /\ response = "error"
    /\ body.hasEvents /\ body.events # <<>> /\ body.email = "ada@x"
    /\ prodHost = NULL
    /\ inviteCalls = <<>>

\* ================================================================ claims about parseEvents
\* s ends with the pieces of t
EndsWith(s, t) ==
    /\ Len(t) <= Len(s)
    /\ SubSeq(s, Len(s) - Len(t) + 1, Len(s)) = t

ContainsLocalhost(host) == \E k \in DOMAIN host : host[k] = "localhost"

\* {protocol}://{host}/rsvp/{hash}
RsvpLink(protocol, host, hash) == <<protocol, "://">> \o host \o <<"/rsvp/", hash>>

\* C11: the description of every outgoing payload ends with the link
\* {protocol}://{host}/rsvp/{hash} of its event, where protocol is http when the
\* host contains "localhost" and https for every other host.
C11_RsvpLink ==
    \A k \in DOMAIN parsedEvents :
        EndsWith(parsedEvents[k].description,
                 RsvpLink(IF ContainsLocalhost(reqHost) THEN "http" ELSE "https",
                          reqHost, store[WorkingRef(k)].hash))

C11_Witness ==
    /\ reqHost = <<"my.", "localhost", ".dev">>
    /\ \E k \in DOMAIN parsedEvents : store[WorkingRef(k)].proposer.nickname # ""
    /\ \E k \in DOMAIN parsedEvents : store[WorkingRef(k)].proposer.nickname = ""

\* ================================================================ claims about the attendee race
\* the getEvent call made for entry k of the working set
FetchFor(k) == CHOOSE n \in DOMAIN adapterCalls :
                  adapterCalls[n].op = "getEvent" /\ adapterCalls[n].index = k
\* update call k was built from an event that was fetched
Fetched(k) == CallsFor("getEvent", UpdateCalls[k].index) # {}
FetchedList(k) == adapterCalls[FetchFor(UpdateCalls[k].index)].returned.list

\* C12: every attendee fetch of the batch completes before any update call is issued,
\* and applying the update call of a fetched event leaves the remote event with the
\* attendee list that was fetched, whatever the list had become in between.
C12_ChangeLost ==
    /\ [](\A n, m \in DOMAIN adapterCalls :
            (adapterCalls[n].op = "getEvent" /\ adapterCalls[m].op = "update") => n < m)
    /\ [][\A k \in DOMAIN promises :
            (/\ promises[k].state = "pending"
             /\ k \in DOMAIN promises'
             /\ promises'[k].state = "fulfilled"
             /\ Fetched(k)) =>
                /\ remote'[UpdateCalls[k].eventId].has
                /\ remote'[UpdateCalls[k].eventId].list = FetchedList(k)]_vars

\* an attendee was added or removed between the fetch and the update, and is lost
C12_Witness ==
    \E k \in DOMAIN promises :
        /\ promises[k].state = "fulfilled"
        /\ Fetched(k)
        /\ promises[k].replaced.list # FetchedList(k)
        /\ remote[UpdateCalls[k].eventId].list = FetchedList(k)
        /\ \A j \in DOMAIN promises : j # k => promises[j].state = "pending"

\* ================================================================ claims about the Rsvp table
RequestEvents == {body.events[k] : k \in DOMAIN body.events}
ChangedRows == {r \in EventIds \X UserIds : rsvps'[r] # rsvps[r]}

\* C13: the handler calls sendInvite once; a row of the Rsvp table changes only after
\* that call has resolved, only for an event of the request's events list and the
\* user with the request's email, and only from false to true; when sendInvite
\* rejects no row changes, and no flag is ever reset and no row added or removed.
C13_RsvpFrame ==
    /\ [](/\ Len(inviteCalls) <= 1
          /\ hpc = "failed" => rsvpAttempts = <<>>)
    /\ [][/\ ChangedRows # {} =>
                /\ Len(inviteCalls) = 1
                /\ hpc \notin {"start", "sendInvite", "failed"}
                /\ hpc' # "failed"
                /\ response = "none"
          /\ \A r \in ChangedRows :
                /\ r[1] \in RequestEvents
                /\ EmailOf(r[2]) = body.email
                /\ rsvps[r] = "unmarked"
                /\ rsvps'[r] = "added"
          /\ (hpc = "failed" \/ hpc' = "failed") => rsvps' = rsvps]_vars

C13_Witness ==
    /\ hpc = "done"
    /\ \E a \in Attempts :
        LET e == rsvpAttempts[a].eventId
            u == rsvpAttempts[a].attendeeId
        IN /\ rsvpAttempts[a].outcome = "ok"
           /\ rsvps[<<e, u>>] = "added"
           /\ \E v \in UserIds : v # u /\ rsvps[<<e, v>>] = "unmarked"
           /\ \E f \in EventIds : f \notin RequestEvents /\ rsvps[<<f, u>>] = "unmarked"
====
